---------------------------- MODULE Spec2Model ----------------------------
(***************************************************************************)
(* LUMINA (src/src/App.jsx): one photograph is resized, sent to a remote   *)
(* image generator under four pose prompts, and the first generated image  *)
(* is rendered into a short canvas video.                                  *)
(*                                                                         *)
(* The model follows JavaScript's run-to-completion semantics: one action  *)
(* is one event-loop task (a user event, a timer, a completed I/O, a frame *)
(* callback) together with the promise continuations (microtasks) that it  *)
(* triggers, because no other handler can run between them.  A "run" is    *)
(* one accepted upload and everything it starts: handleFileUpload,         *)
(* processImages, the render timer and generateGlamCamVideo.  The React    *)
(* state of the component is shared by all runs.                           *)
(*                                                                         *)
(* loadingProgress is held in half percents (Pct(5) is the code's 5),      *)
(* because progressPerImage = 90 / 4 = 22.5 is not an integer.  The        *)
(* animation's fractions are held as numerators over a fixed denominator.  *)
(***************************************************************************)
EXTENDS Integers, Sequences, FiniteSets

(* ------------------------------ bounds -------------------------------- *)

\* The number of image uploads the model follows (accepted files).
MaxUploads == 2

\* The number of uploads followed where every set of recordable types is
\* tried (SpecCodec, SpecLive).
CodecUploads == 1

Runs == 1..MaxUploads

\* The edge lengths, in pixels, of the photographs whose resizing is
\* followed (SpecResize).
Edges == {1, 2, 3, 561, 768, 1024, 1025, 1122, 2048, 3000, 4000, 5000}

SourceSizes == Edges \X Edges

\* The frames at which a frame callback is followed into an exception: the
\* second frame, one in the middle, and the last.
FaultFrames == {1, 40, 89}

(* ------------------------- program constants -------------------------- *)

POSES == <<"closeup", "fullbody", "profile", "stool">>

N == Len(POSES)

Poses == 1..N

types == <<"video/mp4", "video/webm;codecs=vp9", "video/webm;codecs=vp8",
           "video/webm;codecs=h264", "video/webm">>

fps == 30

durationSeconds == 3

totalFrames == fps * durationSeconds

\* A percentage in the unit loadingProgress is held in (half percents).
Pct(n) == 2 * n

progressPerImage == Pct(90) \div N

Min(a, b) == IF a <= b THEN a ELSE b

(* ------------------------------ values -------------------------------- *)

Null == [kind |-> "null"]

Pending == [kind |-> "pending"]

\* The data URL generateEditorialImage returns for pose i in run r.
Asset(r, i) == [kind |-> "asset", run |-> r, pose |-> i]

\* The object URL of the blob that onstop assembles.
BlobUrl(r, src, type) == [kind |-> "blob", run |-> r, src |-> src, type |-> type]

KeyMissingMsg == "API Key is missing! Check your .env file."

NoImagesMsg == "Failed to generate any images. Please try again."

InvalidFileMsg == "Please upload a valid image file."

VideoFailedMsg == "Video failed"

FileKinds == {"image/jpeg", "text/plain"}

\* How a call of generateEditorialImage ends: with the data URL, or with one
\* of its throws (fetch rejects, !response.ok, no image in the response),
\* which the caller's catch treats alike.
Outcomes == {"ok", "error"}

(* ------------------------------ state --------------------------------- *)

VARIABLES
    apiKey,             \* import.meta.env.VITE_GEMINI_API_KEY is set
    supported,          \* the types MediaRecorder.isTypeSupported accepts
    sources,            \* the pixel sizes of the photographs at hand
    step, originalImage, generatedImages, videoUrl,
    loadingProgress, renderingProgress, isVideoGenerating, errorMsg,
    pc,                 \* where each run's chain of callbacks stands
    file,               \* per run: the File handleFileUpload holds
    payload,            \* per run: the canvas size resizeImage encoded
    results,            \* per run: what each pose's promise settled to
    invoked,            \* per run and pose: calls of generateEditorialImage
    fetched,            \* per run and pose: fetch requests issued
    outOfOrder,         \* per run: a pose settled before a lower one
    imageSrc,           \* per run: the argument of generateGlamCamVideo
    mimeType,           \* per run: the negotiated type ("" if none)
    recorder,           \* per run: the MediaRecorder (options, state)
    frame,              \* per run: animate's frame counter
    painted,            \* per run: frames drawn on the canvas
    drawn,              \* per run: how the latest frame was drawn
    stops,              \* per run: calls of mediaRecorder.stop()
    dones               \* per run: runs of mediaRecorder.onstop

react == <<step, originalImage, generatedImages, videoUrl, loadingProgress,
           renderingProgress, isVideoGenerating, errorMsg>>

env == <<apiKey, supported, sources>>

intake == <<file, payload>>

batch == <<results, invoked, fetched, outOfOrder>>

render == <<imageSrc, mimeType, recorder, frame, painted, drawn, stops, dones>>

vars == <<env, react, pc, intake, batch, render>>

NoRecorder == [state |-> "none", options |-> "none"]

Types == {types[k] : k \in 1..Len(types)}

\* The state after the component is mounted, in a runtime where the key is
\* one of keys, the recordable types are one of sups, and the user has
\* files image files to upload.
Mounted(keys, sups, files) ==
    /\ apiKey \in keys
    /\ supported \in sups
    /\ pc = [r \in Runs |-> IF r <= files THEN "idle" ELSE "unused"]
    /\ file = [r \in Runs |-> Null]
    /\ payload = [r \in Runs |-> Null]
    /\ step = "upload"
    /\ originalImage = Null
    /\ generatedImages = <<>>
    /\ videoUrl = Null
    /\ loadingProgress = 0
    /\ renderingProgress = 0
    /\ isVideoGenerating = FALSE
    /\ errorMsg = ""
    /\ results = [r \in Runs |-> [i \in Poses |-> Null]]
    /\ invoked = [r \in Runs |-> [i \in Poses |-> 0]]
    /\ fetched = [r \in Runs |-> [i \in Poses |-> 0]]
    /\ outOfOrder = [r \in Runs |-> FALSE]
    /\ imageSrc = [r \in Runs |-> Null]
    /\ mimeType = [r \in Runs |-> ""]
    /\ recorder = [r \in Runs |-> NoRecorder]
    /\ frame = [r \in Runs |-> 0]
    /\ painted = [r \in Runs |-> <<>>]
    /\ drawn = [r \in Runs |-> Null]
    /\ stops = [r \in Runs |-> 0]
    /\ dones = [r \in Runs |-> 0]

(* ---------------------------- resizeImage ----------------------------- *)

MAX_SIZE == 1024

RECURSIVE BitLen(_)
\* The number of binary digits of n.
BitLen(n) == IF n = 0 THEN 0 ELSE 1 + BitLen(n \div 2)

RECURSIVE Pow2(_)
Pow2(n) == IF n = 0 THEN 1 ELSE 2 * Pow2(n - 1)

RECURSIVE Pow2Mod(_, _)
\* 2^p modulo b.
Pow2Mod(p, b) == IF p = 0 THEN 1 % b ELSE (2 * Pow2Mod(p - 1, b)) % b

IsPow2(n) == n = Pow2(BitLen(n) - 1)

\* The size attribute a canvas gets from  a *= MAX_SIZE / b  (1 <= a <= b,
\* b > MAX_SIZE): the IEEE double a * (MAX_SIZE / b), truncated to an
\* integer.  The double differs from the exact quotient by less than 1/b,
\* so it has the quotient's integer part unless the quotient is an integer
\* k.  Then with s the bit length of b, the 53-bit significand of
\* MAX_SIZE / b is 2^(52+s) / b rounded to nearest, R = 2^(52+s) mod b tells
\* the direction, and the product is exactly k - k*R / 2^(52+s) when the
\* division rounded down: it rounds back to k only if that is within half
\* the gap to the double below k; else the canvas gets k - 1
\* (1122 * (1024 / 1122) = 1023.9999999999999).
Scaled(a, b) ==
    LET k == (a * MAX_SIZE) \div b
        s == BitLen(b)
        R == Pow2Mod(52 + s, b)
        e == BitLen(k) - 1
    IN  IF (a * MAX_SIZE) % b # 0 \/ IsPow2(b) \/ 2 * R > b THEN k
        ELSE IF IsPow2(k)
               THEN (IF R <= Pow2(s - 2) THEN k ELSE k - 1)
               ELSE (IF k * R <= Pow2(s + e - 1) THEN k ELSE k - 1)

\* Mutant: the image is encoded at its own size.
Resize_AsIs(w, h) == <<w, h>>

\* The canvas size resizeImage draws an image of w x h pixels on.
Resize(w, h) ==
    IF w > h
      THEN (IF w > MAX_SIZE THEN <<MAX_SIZE, Scaled(h, w)>> ELSE <<w, h>>)
      ELSE (IF h > MAX_SIZE THEN <<Scaled(w, h), MAX_SIZE>> ELSE <<w, h>>)

(* ------------------------- handleFileUpload --------------------------- *)

\* Mutant: every file is taken for an image.
IsImage_Any(type) == TRUE

\* file.type.startsWith('image/')
IsImage(type) == type = "image/jpeg"

\* e.target.files[0]: a file of the given type; d is the pixel size of the
\* picture in it, if it is one.
File(type, d) ==
    [kind |-> "file", type |-> type,
     width |-> IF type = "image/jpeg" THEN d[1] ELSE 0,
     height |-> IF type = "image/jpeg" THEN d[2] ELSE 0]

\* The user picks the r-th file, of the given type.  The file input is
\* rendered only on the upload screen (step === 'upload').  A file that is
\* not an image is rejected; an image starts run r.  (A change event
\* without a file returns at once and changes nothing.)
HandleFileUpload(r, type, d) ==
    /\ step = "upload"
    /\ pc[r] = "idle"
    /\ \A q \in Runs : q < r => pc[q] # "idle"
    /\ file' = [file EXCEPT ![r] = File(type, d)]
    /\ IF ~IsImage(type)
         THEN /\ errorMsg' = InvalidFileMsg
              /\ pc' = [pc EXCEPT ![r] = "rejected"]
              /\ UNCHANGED loadingProgress
         ELSE /\ loadingProgress' = Pct(5)
              /\ pc' = [pc EXCEPT ![r] = "resizing"]
              /\ UNCHANGED errorMsg
    /\ UNCHANGED <<env, step, originalImage, generatedImages, videoUrl,
                   renderingProgress, isVideoGenerating, payload, batch,
                   render>>

\* resizeImage resolves (img.onload): the picture has been drawn on a canvas
\* of the reduced size and encoded; handleFileUpload goes on to await
\* fileToBase64.  (A file that does not decode never gets here: resizeImage
\* has no onerror.)
ResizeDone(r) ==
    /\ pc[r] = "resizing"
    /\ payload' = [payload EXCEPT ![r] =
           [kind |-> "jpeg", size |-> Resize(file[r].width, file[r].height)]]
    /\ pc' = [pc EXCEPT ![r] = "reading"]
    /\ UNCHANGED <<env, react, file, batch, render>>

\* The file and the payload are no longer referenced once handleFileUpload
\* has passed the payload on or has ended.
Handover(r) ==
    /\ file' = [file EXCEPT ![r] = Null]
    /\ payload' = [payload EXCEPT ![r] = Null]

\* fileToBase64 rejects (reader.onerror): handleFileUpload ends there.
ReadFails(r) ==
    /\ pc[r] = "reading"
    /\ pc' = [pc EXCEPT ![r] = "aborted"]
    /\ Handover(r)
    /\ UNCHANGED <<env, react, batch, render>>

(* --------------------------- processImages ---------------------------- *)

\* Mutant: processImages does not look at the key.
ProcessGuard_Dropped == FALSE

\* if (!apiKey) at the head of processImages
ProcessGuard == ~apiKey

\* if (!apiKey) at the head of generateEditorialImage
ClientGuard == ~apiKey

\* setLoadingProgress(10)
Base == Pct(10)

\* The updater both branches of the per-pose wrapper pass to
\* setLoadingProgress.
Bump(prev) == Min(prev + progressPerImage, Pct(95))

\* Mutant: the progress is left at the ceiling.
Complete_Ceiling == Pct(95)

\* setLoadingProgress(100)
Complete == Pct(100)

\* fileToBase64 resolves: setOriginalImage, setStep('processing') and the
\* synchronous start of processImages.  It stops at a missing key; else it
\* calls generateEditorialImage once per pose.  Each call either throws at
\* its own key check, before any fetch (then all four are caught in this
\* same task and the batch ends with no results), or runs up to its fetch.
ReadDone(r) ==
    /\ pc[r] = "reading"
    /\ originalImage' = [kind |-> "file"]
    /\ Handover(r)
    /\ IF ProcessGuard
         THEN /\ errorMsg' = KeyMissingMsg
              /\ step' = "upload"
              /\ pc' = [pc EXCEPT ![r] = "failed"]
              /\ UNCHANGED <<loadingProgress, batch>>
         ELSE IF ClientGuard
         THEN /\ invoked' = [invoked EXCEPT ![r] = [i \in Poses |-> @[i] + 1]]
              /\ loadingProgress' = Bump(Bump(Bump(Bump(Base))))
              /\ errorMsg' = NoImagesMsg
              /\ step' = "upload"
              /\ pc' = [pc EXCEPT ![r] = "failed"]
              /\ UNCHANGED <<results, fetched, outOfOrder>>
         ELSE /\ step' = "processing"
              /\ loadingProgress' = Base
              /\ results' = [results EXCEPT ![r] = [i \in Poses |-> Pending]]
              /\ invoked' = [invoked EXCEPT ![r] = [i \in Poses |-> @[i] + 1]]
              /\ fetched' = [fetched EXCEPT ![r] = [i \in Poses |-> @[i] + 1]]
              /\ pc' = [pc EXCEPT ![r] = "generating"]
              /\ UNCHANGED <<errorMsg, outOfOrder>>
    /\ UNCHANGED <<env, generatedImages, videoUrl, renderingProgress,
                   isVideoGenerating, render>>

\* What the promise of pose i settles to: the asset, or null from the catch.
Settled(r, i, outcome) == IF outcome = "ok" THEN Asset(r, i) ELSE Null

\* Mutant: the values are collected in the order the calls settle.
RecordResult_Arrival(res, i, v) ==
    LET p == CHOOSE p \in Poses :
                 res[p] = Pending /\ \A q \in Poses : q < p => res[q] # Pending
    IN  [res EXCEPT ![p] = v]

\* Promise.all keeps each value at the index of its promise.
RecordResult(res, i, v) == [res EXCEPT ![i] = v]

\* Mutant: the first failure settles the batch (no catch around the call).
AllSettled_FailFast(res) ==
    \/ \E i \in Poses : res[i] = Null
    \/ \A i \in Poses : res[i] # Pending

\* Promise.all resolves once every promise has.
AllSettled(res) == \A i \in Poses : res[i] # Pending

\* Mutant: the nulls are not filtered out.
FilterNonNull_Unfiltered(s) == s

RECURSIVE FilterNonNull(_)
\* results.filter(result => result !== null)
FilterNonNull(s) ==
    IF s = <<>> THEN <<>>
    ELSE IF Head(s) # Null THEN <<Head(s)>> \o FilterNonNull(Tail(s))
    ELSE FilterNonNull(Tail(s))

AsSeq(res) == [i \in 1..N |-> res[i]]

\* Mutant: an empty result is stored and shown like any other.
NoResults_Ignored(kept) == FALSE

\* if (results.length === 0)
NoResults(kept) == Len(kept) = 0

\* The call for pose i of run r settles.  While other calls are pending
\* only the progress moves; the last one to settle also resolves
\* Promise.all, and processImages runs to its end in the same task.
CallSettles(r, i, outcome) ==
    /\ pc[r] = "generating"
    /\ results[r][i] = Pending
    /\ LET res == RecordResult(results[r], i, Settled(r, i, outcome))
           kept == FilterNonNull(AsSeq(res))
       IN  /\ results' = [results EXCEPT ![r] = res]
           /\ outOfOrder' = [outOfOrder EXCEPT ![r] =
                  @ \/ \E j \in Poses : j < i /\ results[r][j] = Pending]
           /\ IF ~AllSettled(res)
                THEN /\ loadingProgress' = Bump(loadingProgress)
                     /\ UNCHANGED <<step, generatedImages, errorMsg, pc>>
                ELSE IF NoResults(kept)
                THEN /\ loadingProgress' = Bump(loadingProgress)
                     /\ errorMsg' = NoImagesMsg
                     /\ step' = "upload"
                     /\ pc' = [pc EXCEPT ![r] = "failed"]
                     /\ UNCHANGED generatedImages
                ELSE /\ generatedImages' = kept
                     /\ loadingProgress' = Complete
                     /\ step' = "results"
                     /\ pc' = [pc EXCEPT ![r] = "scheduled"]
                     /\ UNCHANGED errorMsg
    /\ UNCHANGED <<env, originalImage, videoUrl, renderingProgress,
                   isVideoGenerating, intake, invoked, fetched, render>>

(* ----------------------- generateGlamCamVideo ------------------------- *)

\* The closure's array once the timer has fired and dropped it.
Dropped == [i \in Poses |-> Null]

\* The 500 ms timer fires: generateGlamCamVideo(results[0]) starts and awaits
\* the image.  The timer's closure was the last holder of the results.
TimerFires(r) ==
    /\ pc[r] = "scheduled"
    /\ imageSrc' = [imageSrc EXCEPT ![r] = FilterNonNull(AsSeq(results[r]))[1]]
    /\ results' = [results EXCEPT ![r] = Dropped]
    /\ outOfOrder' = [outOfOrder EXCEPT ![r] = FALSE]
    /\ isVideoGenerating' = TRUE
    /\ renderingProgress' = 0
    /\ pc' = [pc EXCEPT ![r] = "loading"]
    /\ UNCHANGED <<env, step, originalImage, generatedImages, videoUrl,
                   loadingProgress, errorMsg, intake, invoked, fetched,
                   mimeType, recorder, frame, painted, drawn, stops, dones>>

\* The image of the pass is no longer referenced once the pass has ended.
Release(r) == imageSrc' = [imageSrc EXCEPT ![r] = Null]

\* Mutant: the catch block sends the user back to an empty upload screen.
Catch_Discards(r) ==
    /\ errorMsg' = VideoFailedMsg
    /\ isVideoGenerating' = FALSE
    /\ pc' = [pc EXCEPT ![r] = "renderFailed"]
    /\ Release(r)
    /\ generatedImages' = <<>>
    /\ step' = "upload"
    /\ UNCHANGED <<originalImage, videoUrl, loadingProgress>>

\* What the catch block does, and the state it does not touch.
Catch(r) ==
    /\ errorMsg' = VideoFailedMsg
    /\ isVideoGenerating' = FALSE
    /\ pc' = [pc EXCEPT ![r] = "renderFailed"]
    /\ Release(r)
    /\ UNCHANGED <<step, originalImage, generatedImages, videoUrl,
                   loadingProgress>>

\* image.onerror: the awaited promise rejects.
ImageError(r) ==
    /\ pc[r] = "loading"
    /\ Catch(r)
    /\ UNCHANGED <<env, renderingProgress, intake, batch, mimeType, recorder,
                   frame, painted, drawn, stops, dones>>

\* Mutant: the last supported entry is taken (findLast).
Find_Last(s, ok) ==
    LET idx == {k \in 1..Len(s) : s[k] \in ok}
    IN  IF idx = {} THEN ""
        ELSE s[CHOOSE k \in idx : \A j \in idx : j <= k]

RECURSIVE Find(_, _)
\* types.find(t => MediaRecorder.isTypeSupported(t)) || ""
Find(s, ok) ==
    IF s = <<>> THEN ""
    ELSE IF Head(s) \in ok THEN Head(s)
    ELSE Find(Tail(s), ok)

\* const options = mimeType ? { mimeType } : undefined
Options(m) == IF m # "" THEN m ELSE "default"

\* new MediaRecorder(stream, options): a recorder that is not recording yet.
Construct(m) == [state |-> "inactive", options |-> Options(m)]

\* Mutant: the recorder is never started.
Start_Skipped(rec) == rec

\* mediaRecorder.start()
Start(rec) == [rec EXCEPT !.state = "recording"]

\* Math.round((frame / totalFrames) * 100)
Round(f) == (200 * f + totalFrames) \div (2 * totalFrames)

\* The denominator the numerators below are fractions of.
Unit == totalFrames * totalFrames * totalFrames

\* Mutant: an easing curve that turns back after half the frames.
SmoothT_Overshoot(f) == f * f * (3 * totalFrames - 4 * f)

\* smoothT = t * t * (3 - 2 * t) with t = frame / totalFrames, times Unit.
SmoothT(f) == f * f * (3 * totalFrames - 2 * f)

\* scale = 1.0 + (0.1 * smoothT), times 10 * Unit.
Scale(f) == 10 * Unit + SmoothT(f)

\* panY = 0 - (10 * smoothT), times Unit.
PanY(f) == 0 - (10 * SmoothT(f))

\* The alpha of the white overlay, in tenths: 0.8 - (frame * 0.2) while
\* frame < 4, and no overlay after that.
FlashAlpha(f) == IF f < 4 THEN 8 - (f * 2) ELSE 0

\* What one call of animate draws for frame f.
Draw(f) == [scale |-> Scale(f), panY |-> PanY(f), flash |-> FlashAlpha(f)]

\* new MediaRecorder(stream, options) throws (the runtime cannot record).
RecorderError(r) ==
    /\ pc[r] = "loading"
    /\ Catch(r)
    /\ UNCHANGED <<env, renderingProgress, intake, batch, mimeType, recorder,
                   frame, painted, drawn, stops, dones>>

\* image.onload, the recorder is built and started, and the first call of
\* animate, still inside the try block, throws while drawing: the catch
\* block runs.  Nothing stops the recorder.
FirstTickThrows(r) ==
    /\ pc[r] = "loading"
    /\ LET m == Find(types, supported)
       IN  /\ mimeType' = [mimeType EXCEPT ![r] = m]
           /\ recorder' = [recorder EXCEPT ![r] = Start(Construct(m))]
    /\ renderingProgress' = Round(0)
    /\ Catch(r)
    /\ UNCHANGED <<env, intake, batch, frame, painted, drawn, stops, dones>>

\* image.onload: the type is negotiated, the recorder is built and started,
\* and the first call of animate paints frame 0 and asks for the next frame.
ImageLoaded(r) ==
    /\ pc[r] = "loading"
    /\ LET m == Find(types, supported)
       IN  /\ mimeType' = [mimeType EXCEPT ![r] = m]
           /\ recorder' = [recorder EXCEPT ![r] = Start(Construct(m))]
    /\ renderingProgress' = Round(0)
    /\ painted' = [painted EXCEPT ![r] = Append(@, 0)]
    /\ drawn' = [drawn EXCEPT ![r] = Draw(0)]
    /\ frame' = [frame EXCEPT ![r] = 1]
    /\ pc' = [pc EXCEPT ![r] = "encoding"]
    /\ UNCHANGED <<env, step, originalImage, generatedImages, videoUrl,
                   loadingProgress, isVideoGenerating, errorMsg, intake,
                   batch, imageSrc, stops, dones>>

\* Mutant: the loop runs one frame too long.
LoopEnds_OffByOne(f) == f > totalFrames

\* if (frame >= totalFrames)
LoopEnds(f) == f >= totalFrames

\* A frame callback: animate either stops the recorder or paints a frame.
Animate(r) ==
    /\ pc[r] = "encoding"
    /\ IF LoopEnds(frame[r])
         THEN /\ stops' = [stops EXCEPT ![r] = @ + 1]
              /\ recorder' = [recorder EXCEPT ![r].state = "inactive"]
              /\ pc' = [pc EXCEPT ![r] = "stopping"]
              /\ UNCHANGED <<renderingProgress, painted, drawn, frame>>
         ELSE /\ renderingProgress' = Round(frame[r])
              /\ painted' = [painted EXCEPT ![r] = Append(@, frame[r])]
              /\ drawn' = [drawn EXCEPT ![r] = Draw(frame[r])]
              /\ frame' = [frame EXCEPT ![r] = @ + 1]
              /\ UNCHANGED <<stops, recorder, pc>>
    /\ UNCHANGED <<env, step, originalImage, generatedImages, videoUrl,
                   loadingProgress, isVideoGenerating, errorMsg, intake,
                   batch, imageSrc, mimeType, dones>>

\* A frame callback in which animate throws while drawing.  The callback
\* is called by the browser, not from the try block: nothing catches the
\* exception, no further frame is asked for, and the recorder stays on.
LaterTickThrows(r) ==
    /\ pc[r] = "encoding"
    /\ frame[r] \in FaultFrames
    /\ ~LoopEnds(frame[r])
    /\ renderingProgress' = Round(frame[r])
    /\ pc' = [pc EXCEPT ![r] = "stalled"]
    /\ UNCHANGED <<env, step, originalImage, generatedImages, videoUrl,
                   loadingProgress, isVideoGenerating, errorMsg, intake,
                   batch, render>>

\* Mutant: the blob is labelled with the negotiated type as it is.
BlobType_Raw(m) == m

\* new Blob(chunks, { type: mimeType || 'video/webm' })
BlobType(m) == IF m # "" THEN m ELSE "video/webm"

\* mediaRecorder.onstop
OnStop(r) ==
    /\ pc[r] = "stopping"
    /\ videoUrl' = BlobUrl(r, imageSrc[r], BlobType(mimeType[r]))
    /\ isVideoGenerating' = FALSE
    /\ renderingProgress' = 100
    /\ dones' = [dones EXCEPT ![r] = @ + 1]
    /\ pc' = [pc EXCEPT ![r] = "done"]
    /\ Release(r)
    /\ UNCHANGED <<env, step, originalImage, generatedImages,
                   loadingProgress, errorMsg, intake, batch, mimeType,
                   recorder, frame, painted, drawn, stops>>

(* ------------------------------ buttons ------------------------------- *)

\* The "New Shoot" button of the results screen.
NewShoot ==
    /\ step = "results"
    /\ step' = "upload"
    /\ generatedImages' = <<>>
    /\ videoUrl' = Null
    /\ errorMsg' = ""
    /\ UNCHANGED <<env, originalImage, loadingProgress, renderingProgress,
                   isVideoGenerating, pc, intake, batch, render>>

\* The X button of the error banner.
DismissError ==
    /\ errorMsg # ""
    /\ errorMsg' = ""
    /\ UNCHANGED <<env, step, originalImage, generatedImages, videoUrl,
                   loadingProgress, renderingProgress, isVideoGenerating,
                   pc, intake, batch, render>>

(* --------------------------- specification ---------------------------- *)

Next ==
    \/ \E r \in Runs, t \in FileKinds, d \in sources : HandleFileUpload(r, t, d)
    \/ \E r \in Runs : ResizeDone(r)
    \/ \E r \in Runs : ReadFails(r)
    \/ \E r \in Runs : ReadDone(r)
    \/ \E r \in Runs, i \in Poses, o \in Outcomes : CallSettles(r, i, o)
    \/ \E r \in Runs : TimerFires(r)
    \/ \E r \in Runs : ImageError(r)
    \/ \E r \in Runs : RecorderError(r)
    \/ \E r \in Runs : FirstTickThrows(r)
    \/ \E r \in Runs : ImageLoaded(r)
    \/ \E r \in Runs : Animate(r)
    \/ \E r \in Runs : LaterTickThrows(r)
    \/ \E r \in Runs : OnStop(r)
    \/ NewShoot
    \/ DismissError

\* The photograph every file holds unless the sizes are what is varied.
Landscape == <<4000, 3000>>

\* MaxUploads files, with and without the key, in a runtime that records
\* every type of the list.
Init == Mounted(BOOLEAN, {Types}, MaxUploads) /\ sources = {Landscape}

Spec == Init /\ [][Next]_vars

\* CodecUploads files, with the key, in every runtime: each subset of the
\* list as the recordable types.
InitCodec ==
    Mounted({TRUE}, SUBSET Types, CodecUploads) /\ sources = {Landscape}

SpecCodec == InitCodec /\ [][Next]_vars

\* The browser keeps calling the frame callbacks it was asked for and
\* delivers the stop event of a stopped recorder.
Fairness == \A r \in Runs : WF_vars(Animate(r)) /\ WF_vars(OnStop(r))

SpecLive == InitCodec /\ [][Next]_vars /\ Fairness

\* CodecUploads files of every size in SourceSizes, with the key, in a
\* runtime that records every type of the list.
InitResize ==
    Mounted({TRUE}, {Types}, CodecUploads) /\ sources = SourceSizes

SpecResize == InitResize /\ [][Next]_vars

(* ------------------------- shared vocabulary -------------------------- *)

\* Run r is past the key check of processImages.
Started(r) ==
    /\ apiKey
    /\ pc[r] \in {"generating", "scheduled", "failed", "loading", "encoding",
                  "stopping", "done", "renderFailed", "stalled"}

\* The poses of run r whose call has produced an asset.
Succeeded(r) == {i \in Poses : results[r][i] # Null /\ results[r][i] # Pending}

\* The poses of run r whose call has settled.
Completed(r) == {i \in Poses : results[r][i] # Pending}

\* processImages of run r returns in this step.
Resolves(r) == pc[r] = "generating" /\ pc'[r] # "generating"

\* The p-th smallest element of a set of poses.
Nth(S, p) == CHOOSE i \in S : Cardinality({j \in S : j <= i}) = p

\* The yellow notice of the results screen and the number it implies.
NoticeShown == step = "results" /\ Len(generatedImages) < N

MissingReported == IF NoticeShown THEN N - Len(generatedImages) ELSE 0

(* -------------------------------- C1 ---------------------------------- *)

\* C1: when processImages of a run returns with k of its N = 4 calls
\* succeeded: if k = 0 the error message is set, the step goes back to
\* 'upload', the run stores no images and schedules no render; if k > 0 the
\* stored images are exactly the k assets, in pose order, and the results
\* screen reports N - k missing.
C1_BatchOutcome ==
    [][\A r \in Runs : Resolves(r) =>
          LET S == {i \in Poses : results'[r][i] # Null}
              k == Cardinality(S)
          IN  /\ \A i \in Poses : results'[r][i] \in {Null, Asset(r, i)}
              /\ k = 0 =>
                   /\ errorMsg' = NoImagesMsg
                   /\ step' = "upload"
                   /\ generatedImages' = generatedImages
                   /\ pc'[r] = "failed"
              /\ k > 0 =>
                   /\ Len(generatedImages') = k
                   /\ \A p \in 1..k : generatedImages'[p] = Asset(r, Nth(S, p))
                   /\ step' = "results"
                   /\ MissingReported' = N - k
                   /\ pc'[r] = "scheduled"]_vars

\* One run has failed with no result, and another has just stored two of
\* its four results.
C1_Witness ==
    \E r, q \in Runs :
        /\ pc[q] = "failed" /\ invoked[q][1] = 1
        /\ pc[r] = "scheduled"
        /\ Succeeded(r) = {2, 4}
        /\ generatedImages = <<Asset(r, 2), Asset(r, 4)>>
        /\ MissingReported = 2

(* -------------------------------- C2 ---------------------------------- *)

\* Run r is between its accepted upload and the return of processImages.
InBatch(r) == pc[r] \in {"resizing", "reading", "generating"}

\* C2: while a batch run is under way loadingProgress never decreases, and
\* it is 100 only when no run has an unresolved call.
C2_ProgressMonotone ==
    /\ [][(\E r \in Runs : InBatch(r)) => loadingProgress' >= loadingProgress]_vars
    /\ [](loadingProgress = Pct(100) => \A r \in Runs : pc[r] # "generating")

(* -------------------------------- C3 ---------------------------------- *)

\* C3: in a run that is past the key check each pose's call has been made
\* exactly once (one fetch each); each position of the result array holds
\* its own pose's asset or null; and processImages has returned only if all
\* four calls have settled.
C3_CallsIndependent ==
    \A r \in Runs :
        /\ Started(r) => \A i \in Poses : invoked[r][i] = 1 /\ fetched[r][i] = 1
        /\ pc[r] \in {"generating", "scheduled"} =>
              \A i \in Poses : results[r][i] \in {Pending, Null, Asset(r, i)}
        /\ Started(r) /\ pc[r] # "generating" => Completed(r) = Poses

\* A run has returned with poses 1 and 3 failed and poses 2 and 4 stored.
C3_Witness ==
    \E r \in Runs :
        /\ pc[r] = "scheduled"
        /\ results[r] = [i \in Poses |-> IF i \in {1, 3} THEN Null ELSE Asset(r, i)]
        /\ \A i \in Poses : invoked[r][i] = 1

(* -------------------------------- C4 ---------------------------------- *)

\* C4: the stored images are in pose order, whatever order the calls
\* settled in: they come from one run with increasing pose, and of two
\* successful poses i < j of the run that stored them, i's asset is first.
C4_DirectiveOrder ==
    /\ \A p, q \in 1..Len(generatedImages) : p < q =>
          /\ generatedImages[p].run = generatedImages[q].run
          /\ generatedImages[p].pose < generatedImages[q].pose
    /\ \A r \in Runs :
          (pc[r] = "scheduled" /\ generatedImages # <<>>
                /\ generatedImages[1].run = r) =>
             \A i, j \in Succeeded(r) : i < j =>
                \E p, q \in 1..Len(generatedImages) :
                    /\ p < q
                    /\ generatedImages[p] = Asset(r, i)
                    /\ generatedImages[q] = Asset(r, j)

\* The calls of a run settled out of pose order, poses 1 and 4 among the
\* successes, and the stored images start with pose 1 and end with pose 4.
C4_Witness ==
    \E r \in Runs :
        /\ pc[r] = "scheduled"
        /\ outOfOrder[r]
        /\ {1, N} \subseteq Succeeded(r)
        /\ generatedImages[1] = Asset(r, 1)
        /\ generatedImages[Len(generatedImages)] = Asset(r, N)

(* -------------------------------- C5 ---------------------------------- *)

\* C5: while the calls of a run are unresolved and c of them have settled,
\* loadingProgress = min(10 + c * (90 / 4), 95).
C5_ProgressFormula ==
    \A r \in Runs : pc[r] = "generating" =>
        loadingProgress =
            Min(Pct(10) + Cardinality(Completed(r)) * (Pct(90) \div N), Pct(95))

(* -------------------------------- C6 ---------------------------------- *)

\* C6 as claimed: when processImages returns, progress is set to 100,
\* whatever the mix of successes and failures.
C6_AlwaysComplete ==
    [][\A r \in Runs : Resolves(r) => loadingProgress' = Pct(100)]_vars

\* C6 as amended: when processImages returns with at least one success,
\* progress is set to 100; when every call failed it is not: the last call
\* only adds its increment, up to the ceiling of 95.
C6_CompleteOnSuccess ==
    [][\A r \in Runs : Resolves(r) =>
          IF \E i \in Poses : results'[r][i] # Null
            THEN loadingProgress' = Pct(100)
            ELSE /\ loadingProgress' =
                       Min(loadingProgress + (Pct(90) \div N), Pct(95))
                 /\ loadingProgress' < Pct(100)]_vars

\* A run has returned with some calls failed and progress stands at 100.
C6_Witness ==
    \E r \in Runs :
        /\ pc[r] = "scheduled"
        /\ Succeeded(r) = {3}
        /\ loadingProgress = Pct(100)

(* -------------------------------- C7 ---------------------------------- *)

\* C7: without the key no call is made, no request issued, nothing stored,
\* no render started, and the step stays 'upload'; the run whose file has
\* been read sets the error message and goes no further.
C7_NoKey ==
    /\ [](~apiKey =>
            /\ \A r \in Runs, i \in Poses : invoked[r][i] = 0 /\ fetched[r][i] = 0
            /\ \A r \in Runs : pc[r] \in {"unused", "idle", "rejected", "resizing",
                                         "reading", "aborted", "failed"}
            /\ generatedImages = <<>>
            /\ videoUrl = Null
            /\ ~isVideoGenerating
            /\ loadingProgress \in {0, Pct(5)}
            /\ step = "upload")
    /\ [][~apiKey => \A r \in Runs : (pc[r] = "reading" /\ pc'[r] # "reading") =>
             \/ pc'[r] = "aborted" /\ UNCHANGED react
             \/ /\ pc'[r] = "failed"
                /\ originalImage' # Null
                /\ errorMsg' = KeyMissingMsg
                /\ step' = "upload"]_vars

\* Without the key a file has been resized and read, and its run has failed
\* with the message about the key.
C7_Witness ==
    /\ ~apiKey
    /\ \E r \in Runs : pc[r] = "failed"
    /\ originalImage # Null
    /\ errorMsg = KeyMissingMsg
    /\ step = "upload"

(* -------------------------------- C8 ---------------------------------- *)

\* The first entry of the preference list that the runtime supports.
FirstSupported ==
    types[CHOOSE k \in 1..Len(types) :
             types[k] \in supported /\ \A j \in 1..(k - 1) : types[j] \notin supported]

Recording(r) == pc[r] \in {"encoding", "stopping", "done"}

\* C8: if the runtime supports any entry of the list, the recorder is
\* configured with the first supported entry and the published asset is
\* labelled with it.
C8_FirstSupported ==
    supported # {} =>
        /\ \A r \in Runs : Recording(r) =>
              /\ mimeType[r] = FirstSupported
              /\ recorder[r].options = FirstSupported
        /\ videoUrl # Null => videoUrl.type = FirstSupported

\* Neither mp4 nor vp9 is supported, vp8 and generic webm are, and a video
\* labelled vp8 has been published.
C8_Witness ==
    /\ supported = {"video/webm;codecs=vp8", "video/webm"}
    /\ videoUrl # Null
    /\ videoUrl.type = "video/webm;codecs=vp8"
    /\ \E r \in Runs : pc[r] = "done" /\ recorder[r].options = "video/webm;codecs=vp8"

(* -------------------------------- C9 ---------------------------------- *)

Frames(n) == [k \in 1..n |-> k - 1]

\* C10: a pass whose recorder was started paints the frames 0..89 in order,
\* then stops the recorder once, paints nothing afterwards, and (frame
\* callbacks and the stop event being delivered, and no callback ending in
\* an exception) reaches its end once, with the asset published and
\* isVideoGenerating false.
C10_RenderTerminates ==
    /\ [](\A r \in Runs :
            /\ pc[r] = "encoding" =>
                  /\ frame[r] \in 1..totalFrames
                  /\ painted[r] = Frames(frame[r])
                  /\ recorder[r].state = "recording"
                  /\ stops[r] = 0 /\ dones[r] = 0
            /\ pc[r] \in {"stopping", "done"} =>
                  /\ frame[r] = totalFrames
                  /\ painted[r] = Frames(90)
                  /\ recorder[r].state = "inactive"
                  /\ stops[r] = 1
                  /\ dones[r] = (IF pc[r] = "done" THEN 1 ELSE 0))
    /\ [][\A r \in Runs :
            /\ pc[r] \in {"stopping", "done"} => painted'[r] = painted[r]
            /\ (pc[r] = "stopping" /\ pc'[r] = "done") =>
                  /\ videoUrl' # Null /\ videoUrl'.run = r
                  /\ ~isVideoGenerating']_vars
    /\ \A r \in Runs : (pc[r] = "encoding") ~> (pc[r] \in {"done", "stalled"})

\* A pass has ended: 90 frames painted, one stop, the video published.
C10_Witness ==
    \E r \in Runs :
        /\ pc[r] = "done"
        /\ Len(painted[r]) = 90
        /\ stops[r] = 1 /\ dones[r] = 1
        /\ videoUrl # Null /\ videoUrl.run = r
        /\ ~isVideoGenerating

(* -------------------------------- C11 --------------------------------- *)

\* The render pass of run r is between its start and its end.
InPass(r) == pc[r] \in {"loading", "encoding", "stopping"}

\* C11: at most one render pass is between its start and its end at any
\* time: a render that is asked for while another is active does not start.
C11_OneRenderPass ==
    /\ [](Cardinality({r \in Runs : InPass(r)}) <= 1)
    /\ [][\A r \in Runs :
            (pc[r] = "scheduled" /\ pc'[r] # "scheduled"
                /\ \E q \in Runs : q # r /\ InPass(q)) => ~InPass(r)']_vars

(* -------------------------------- C12 --------------------------------- *)

\* The images on display are those of run r.
Current(r) == generatedImages # <<>> /\ generatedImages[1].run = r

\* The render of run r is scheduled or in progress.
Rendering(r) == pc[r] = "scheduled" \/ InPass(r)

\* C12: when New Shoot is clicked while a render is scheduled or in
\* progress, that render is over at once (nothing scheduled, no pass in
\* progress, its recorder not recording) and no error is shown; and a pass
\* publishes a video only while its own run's images are the ones on
\* display, never after a new run has replaced them.
C12_Cancellation ==
    /\ [][NewShoot =>
            /\ \A r \in Runs : Rendering(r) =>
                  ~Rendering(r)' /\ recorder'[r].state # "recording"
            /\ errorMsg' = ""]_vars
    /\ [][\A r \in Runs :
            (videoUrl' # videoUrl /\ videoUrl' # Null /\ videoUrl'.run = r)
               => Current(r)]_vars

(* -------------------------------- C13 --------------------------------- *)

\* The render pass of run r has ended in a failure: in the catch block, or
\* with an exception nothing caught.
PassFailed(r) == pc[r] \in {"renderFailed", "stalled"}

\* C13: whenever a render pass fails, at whatever stage, the error message
\* of the render is set and isVideoGenerating is cleared in that step; and
\* no video of a failed pass is ever published.
C13_FailureSurfaced ==
    /\ [][\A r \in Runs : (InPass(r) /\ PassFailed(r)') =>
            errorMsg' = VideoFailedMsg /\ ~isVideoGenerating']_vars
    /\ [](\A r \in Runs : PassFailed(r) => videoUrl = Null \/ videoUrl.run # r)

(* -------------------------------- C14 --------------------------------- *)

\* C14: a step in which a render pass fails changes neither the stored
\* images nor the step (nor the original image, the video or the loading
\* progress); when the catch block runs, the error message is set and
\* isVideoGenerating cleared, and the render progress is left as it was or
\* as the failing first frame wrote it.
C14_StillsKept ==
    [][\A r \in Runs : (InPass(r) /\ PassFailed(r)') =>
          /\ generatedImages' = generatedImages
          /\ step' = step
          /\ UNCHANGED <<originalImage, videoUrl, loadingProgress>>
          /\ pc'[r] = "renderFailed" =>
                /\ errorMsg' = VideoFailedMsg
                /\ ~isVideoGenerating'
                /\ renderingProgress' \in {renderingProgress, Round(0)}]_vars

\* A render has failed in the catch block and the results screen still
\* shows all four images of its run.
C14_Witness ==
    \E r \in Runs :
        /\ pc[r] = "renderFailed"
        /\ step = "results"
        /\ generatedImages = [i \in 1..N |-> Asset(r, i)]
        /\ errorMsg = VideoFailedMsg
        /\ ~isVideoGenerating

(* -------------------------------- C15 --------------------------------- *)

\* Run r paints a frame in this step.
Paints(r) == painted'[r] # painted[r]

\* C15: frame 0 is drawn at scale 1.0 with the flash at 0.8, its maximum;
\* from each painted frame to the next the scale does not decrease (and
\* stays within 1.0 .. 1.1), the vertical pan does not increase (it only
\* moves up), and the flash alpha does not increase: it goes down by 0.2
\* per frame until it is zero at frame 4, and is zero from there to frame
\* totalFrames - 1.  (Consecutive frames differ by more than 1/3000 of the
\* easing value, far above the rounding of the doubles the code computes
\* with, so the order of the exact values is the order of the doubles.)
C15_FrameMotion ==
    /\ [](\A r \in Runs :
            /\ painted[r] = <<0>> =>
                  drawn[r].scale = 10 * Unit /\ drawn[r].flash = 8
                     /\ drawn[r].panY = 0
            /\ painted[r] # <<>> =>
                  /\ drawn[r].scale \in (10 * Unit)..(11 * Unit)
                  /\ drawn[r].flash \in 0..8
            /\ Len(painted[r]) > 4 => drawn[r].flash = 0
            /\ Len(painted[r]) = totalFrames =>
                  painted[r][totalFrames] = totalFrames - 1 /\ drawn[r].flash = 0)
    /\ [][\A r \in Runs : (Paints(r) /\ painted[r] # <<>>) =>
            /\ drawn'[r].scale >= drawn[r].scale
            /\ drawn'[r].panY <= drawn[r].panY
            /\ drawn'[r].flash <= drawn[r].flash
            /\ Len(painted'[r]) <= 5 => drawn[r].flash - drawn'[r].flash = 2]_vars

\* Frame 89 has been painted: larger than frame 0, moved up, no flash.
C15_Witness ==
    \E r \in Runs :
        /\ Len(painted[r]) = totalFrames
        /\ drawn[r].scale > 10 * Unit
        /\ drawn[r].panY < 0
        /\ drawn[r].flash = 0

(* -------------------------------- C16 --------------------------------- *)

\* The r-th file chosen is held and its declared type is no image type.
NotImage(r) == file[r] # Null /\ file[r].type \notin {"image/jpeg"}

\* C16: the step that takes a file whose declared type is no image type
\* sets the error message and changes nothing else of the screen's state;
\* for such a file nothing is ever resized, no call made, no request
\* issued, no render started; and its handler never resumes.
C16_InvalidUploadRejected ==
    /\ [](\A r \in Runs : NotImage(r) =>
            /\ pc[r] = "rejected"
            /\ payload[r] = Null
            /\ \A i \in Poses : invoked[r][i] = 0 /\ fetched[r][i] = 0
            /\ results[r] = Dropped
            /\ imageSrc[r] = Null /\ recorder[r] = NoRecorder
            /\ painted[r] = <<>>)
    /\ [][\A r \in Runs : (file[r] = Null /\ NotImage(r)') =>
            /\ errorMsg' = InvalidFileMsg
            /\ UNCHANGED <<step, loadingProgress, originalImage,
                           generatedImages, videoUrl, renderingProgress,
                           isVideoGenerating>>]_vars
    /\ [][\A r \in Runs : pc[r] = "rejected" => pc'[r] = "rejected"]_vars

\* A text file has been chosen and turned down on the upload screen.
C16_Witness ==
    \E r \in Runs :
        /\ NotImage(r)
        /\ file[r].type = "text/plain"
        /\ pc[r] = "rejected"
        /\ errorMsg = InvalidFileMsg
        /\ step = "upload"
        /\ loadingProgress = 0
        /\ originalImage = Null

(* -------------------------------- C17 --------------------------------- *)

Max(a, b) == IF a >= b THEN a ELSE b

Abs(a) == IF a >= 0 THEN a ELSE 0 - a

\* C17: for a picture of w x h pixels (w, h >= 1) resizeImage encodes a
\* canvas of W x H pixels whose longer edge is at most 1024, which is no
\* larger than the picture in either dimension, which has the picture's own
\* size if its longer edge is at most 1024, and whose shorter edge is
\* within one pixel of the exactly proportional length; 4000 x 3000 gives
\* 1024 x 768.
C17_ResizeBounds ==
    \A r \in Runs : pc[r] = "reading" =>
        /\ payload[r] # Null
        /\ LET w == file[r].width
               h == file[r].height
               W == payload[r].size[1]
               H == payload[r].size[2]
           IN  /\ w >= 1 /\ h >= 1
               /\ Max(W, H) <= 1024
               /\ W <= w /\ H <= h
               /\ Max(w, h) <= 1024 => W = w /\ H = h
               /\ Max(w, h) > 1024 => Max(W, H) = 1024
               /\ Abs(W * h - H * w) <= Max(w, h)
               /\ (w = 4000 /\ h = 3000) => (W = 1024 /\ H = 768)

\* A photograph of 4000 x 3000 pixels has been resized to 1024 x 768.
C17_Witness ==
    \E r \in Runs :
        /\ pc[r] = "reading"
        /\ file[r].width = 4000 /\ file[r].height = 3000
        /\ payload[r].size = <<1024, 768>>

(* -------------------------------- C18 --------------------------------- *)

\* C18: a batch whose calls have been made always resolves, whether or not
\* the responses arrive: every run that is waiting for its calls eventually
\* stops waiting.  (Only what the program does by itself is assumed to
\* happen; an answer from the network is not.)
C18_NoHang ==
    \A r \in Runs : (pc[r] = "generating") ~> (pc[r] # "generating")

(* -------------------------------- C19 --------------------------------- *)

\* The phase of the render pass of run r: Idle until generateGlamCamVideo
\* is called, LoadingAssets while the image is awaited, Encoding while the
\* frame loop runs, Finalizing between stop() and onstop, then Done.
Phase(r) ==
    CASE pc[r] = "loading" -> "LoadingAssets"
      [] pc[r] = "encoding" -> "Encoding"
      [] pc[r] = "stopping" -> "Finalizing"
      [] pc[r] = "done" -> "Done"
      [] PassFailed(r) -> "Failed"
      [] OTHER -> "Idle"

\* The phases a pass may be in right after a step that began in phase p.
Successors(p) ==
    CASE p = "Idle" -> {"Idle", "LoadingAssets"}
      [] p = "LoadingAssets" -> {"LoadingAssets", "Encoding", "Failed"}
      [] p = "Encoding" -> {"Encoding", "Finalizing", "Failed"}
      [] p = "Finalizing" -> {"Finalizing", "Done", "Failed"}
      [] p = "Done" -> {"Done"}
      [] p = "Failed" -> {"Failed"}

\* C19: a pass changes phase only along Idle, LoadingAssets, Encoding,
\* Finalizing, Done, or to Failed; there is no recorder and nothing painted
\* before the image has been decoded; the recorder is started in the step
\* that ends LoadingAssets; a frame is painted only with the recorder
\* recording; and a video is published only by a pass in Finalizing, whose
\* recorder has been stopped.
C19_PhaseOrder ==
    /\ [][\A r \in Runs : Phase(r)' \in Successors(Phase(r))]_vars
    /\ [](\A r \in Runs : Phase(r) \in {"Idle", "LoadingAssets"} =>
            recorder[r] = NoRecorder /\ painted[r] = <<>>)
    /\ [][\A r \in Runs :
            /\ (recorder[r].state # "recording" /\ recorder'[r].state = "recording")
                  => Phase(r) = "LoadingAssets" /\ imageSrc[r] # Null
            /\ Paints(r) =>
                  Phase(r)' = "Encoding" /\ recorder'[r].state = "recording"
            /\ (videoUrl' # videoUrl /\ videoUrl' # Null /\ videoUrl'.run = r) =>
                  /\ Phase(r) = "Finalizing" /\ Phase(r)' = "Done"
                  /\ recorder[r].state = "inactive" /\ stops[r] = 1]_vars

\* A pass is in Finalizing: all frames painted, the recorder stopped, its
\* video not yet published.
C19_Witness ==
    \E r \in Runs :
        /\ Phase(r) = "Finalizing"
        /\ Len(painted[r]) = totalFrames
        /\ recorder[r].state = "inactive"
        /\ dones[r] = 0
        /\ videoUrl = Null

(* -------------------------------- C20 --------------------------------- *)

\* The least pose among those of run r that succeeded.
Lowest(r) == CHOOSE i \in Succeeded(r) : \A j \in Succeeded(r) : i <= j

\* C20: the image generateGlamCamVideo is called with is the asset of the
\* least successful pose of its run, whatever the pattern of successes and
\* the order of completion; and a video shown on the results screen was
\* rendered from the first of the images shown there.
C20_VideoSeed ==
    /\ [][\A r \in Runs : (pc[r] = "scheduled" /\ pc'[r] = "loading") =>
            imageSrc'[r] = Asset(r, Lowest(r))]_vars
    /\ []((step = "results" /\ videoUrl # Null) =>
            generatedImages # <<>> /\ videoUrl.src = generatedImages[1])

(* -------------------------------- C21 --------------------------------- *)

\* C21: the results screen is never shown without an image: whenever the
\* step is 'results' at least one image is stored, whatever uploads, batch
\* returns, total failures and New Shoot clicks came before.
C21_ResultsNonEmpty ==
    step = "results" => Len(generatedImages) >= 1

\* One run has failed with no image at all, and the results screen shows
\* the single image another run obtained.
C21_Witness ==
    \E r, q \in Runs :
        /\ pc[q] = "failed" /\ apiKey
        /\ Rendering(r)
        /\ step = "results"
        /\ Len(generatedImages) = 1
        /\ Current(r)

(* -------------------------------- C22 --------------------------------- *)

\* C22: at most one run is between its accepted upload and the return of
\* processImages at any time: no file is accepted while a run is being
\* prepared or is waiting for its calls, and no two batches of calls are
\* pending together.
C22_OneBatch ==
    /\ [](Cardinality({r \in Runs : InBatch(r)}) <= 1)
    /\ [][\A r \in Runs :
            (pc[r] = "idle" /\ InBatch(r)') =>
                \A q \in Runs : q # r => ~InBatch(q)]_vars

=============================================================================
